---- MODULE Spec2Model ----
(***************************************************************************)
(* Model of ploigos/argocd-deploy-task: the two scripts argocd-deploy.py   *)
(* and update-gitops-repo.py.  A run is one call of a function of the      *)
(* module (the scripts themselves call deploy() at import time); external  *)
(* commands (git, yq, argocd) are the environment.                         *)
(***************************************************************************)
EXTENDS Integers, Sequences, FiniteSets, TLC

(***************************************************************************)
(* Bounds of the model.                                                    *)
(***************************************************************************)
\* length of the scripted outcome sequences of `argocd app sync` / `wait --health`
MaxScript == 2
\* number of documents in a manifest
MaxDocs == 3
\* number of rules in an Ingress
MaxRules == 2
\* number of times a run calls _argocd_app_create_or_update with one request
MaxInvocations == 2
\* largest value given to a retry maximum
MaxAttempts == 2

(***************************************************************************)
(* Python values: None, str, int, bool, dict, list.                        *)
(***************************************************************************)
None == [t |-> "none"]
Str(s) == [t |-> "str", s |-> s]
PyInt(i) == [t |-> "int", i |-> i]
PyBool(b) == [t |-> "bool", b |-> b]
Dict(f) == [t |-> "dict", m |-> f]
List(q) == [t |-> "list", l |-> q]

\* bool(v)
Truthy(v) ==
    CASE v.t = "none" -> FALSE
      [] v.t = "str"  -> v.s # ""
      [] v.t = "int"  -> v.i # 0
      [] v.t = "bool" -> v.b
      [] v.t = "dict" -> DOMAIN v.m # {}
      [] v.t = "list" -> Len(v.l) > 0

\* d[k] = v on a TLA+ function used as a dict
DictSet(d, k, v) == [x \in DOMAIN d \cup {k} |-> IF x = k THEN v ELSE d[x]]

(***************************************************************************)
(* Exceptions.  A raise statement whose operand is a str does not raise    *)
(* that text: Python raises TypeError instead.                             *)
(***************************************************************************)
NoExc == [type |-> "none", text |-> <<>>]
Exc(type, text) == [type |-> type, text |-> text]

\* str(error) of sh.ErrorReturnCode for a failed command
ErrorReturnCodeText(cmd) == <<"ErrorReturnCode: ", cmd>>

\* `raise <str>`
RaiseStr(text) == Exc("TypeError", <<"exceptions must derive from BaseException">>)
\* `raise RuntimeError(<str>)`
RaiseRuntimeError(text) == Exc("RuntimeError", text)

(***************************************************************************)
(* Module constants.                                                       *)
(***************************************************************************)
MAX_ATTEMPT_TO_WAIT_FOR_ARGOCD_OP_RETRIES == 2
MAX_ATTEMPT_TO_WAIT_FOR_ARGOCD_HEALTH_RETRIES == 2

\* the words the two patterns look for, as tokens of a captured output
TokFailedPrecondition == "FailedPrecondition"
TokOpInProgress == "another operation is already in progress"
TokLevelFatal == "level=fatal"
TokTransitionedFrom == "health state has transitioned from "
TokToDegraded == " to Degraded"

\* variant: the pattern compiled without re.DOTALL, `.` stops at a line end
ARGOCD_OP_IN_PROGRESS_REGEX_OneLine(text) ==
    \E i, j \in 1..Len(text) :
        /\ i < j
        /\ text[i] = TokFailedPrecondition
        /\ text[j] = TokOpInProgress
        /\ \A k \in 1..j : text[k] # "\n"

\* re.match(ARGOCD_OP_IN_PROGRESS_REGEX, text): with re.DOTALL the leading
\* and the middle `.*` span anything, lines included
ARGOCD_OP_IN_PROGRESS_REGEX(text) ==
    \E i, j \in 1..Len(text) :
        /\ i < j
        /\ text[i] = TokFailedPrecondition
        /\ text[j] = TokOpInProgress

\* variant: the pattern compiled without re.DOTALL, `.` stops at a line end
ARGOCD_HEALTH_STATE_TRANSITIONED_OneLine(text) ==
    \E i, j, k \in 1..Len(text) :
        /\ i < j /\ j + 1 < k
        /\ text[i] = TokLevelFatal
        /\ text[j] = TokTransitionedFrom
        /\ text[k] = TokToDegraded
        /\ \A n \in 1..k : text[n] # "\n"

\* re.match(ARGOCD_HEALTH_STATE_TRANSITIONED_FROM_HEALTHY_TO_DEGRADED, text):
\* `from\s.+\s+to\s+Degraded` needs a non-empty prior state in between
ARGOCD_HEALTH_STATE_TRANSITIONED_FROM_HEALTHY_TO_DEGRADED(text) ==
    \E i, j, k \in 1..Len(text) :
        /\ i < j /\ j + 1 < k
        /\ text[i] = TokLevelFatal
        /\ text[j] = TokTransitionedFrom
        /\ text[k] = TokToDegraded

(***************************************************************************)
(* The environment: external commands.                                     *)
(***************************************************************************)
\* what one `argocd app sync` call does: succeed, fail because another
\* operation is in progress, or fail for another reason
BasicSyncOutcomes == {"ok", "contention", "other"}
\* the same failures as the argocd client may print them: the two phrases
\* on different lines among other log lines, in another letter case, or in
\* the opposite order
SyncOutcomes ==
    BasicSyncOutcomes \cup {"contention_lines", "contention_case", "reversed"}
\* what one `argocd app wait --health` call does
BasicHealthOutcomes == {"ok", "degraded", "other"}
HealthOutcomes == BasicHealthOutcomes \cup {"degraded_lines", "degraded_case"}

\* stdout+stderr the StringIO buffer of one attempt captures
SyncOutput(o) ==
    CASE o = "contention" ->
            <<"time=t ", TokLevelFatal, " msg=rpc error: code = ",
              TokFailedPrecondition, " desc = ", TokOpInProgress>>
      [] o = "contention_lines" ->
            <<"time=t level=info msg=retrying", "\n",
              "rpc error: code = ", TokFailedPrecondition, "\n",
              "desc = ", "\n", TokOpInProgress, "\n", "exit status 20">>
      [] o = "contention_case" ->
            <<"time=t ", TokLevelFatal, " msg=rpc error: code = ",
              "FAILEDPRECONDITION", " desc = ",
              "Another operation is already in progress">>
      [] o = "reversed" ->
            <<TokOpInProgress, "\n", "code = ", TokFailedPrecondition>>
      [] o = "other" -> <<"time=t ", TokLevelFatal, " msg=ComparisonError">>
      [] OTHER -> <<"Operation: Sync Succeeded">>

HealthOutput(o) ==
    CASE o = "degraded" ->
            <<"time=t ", TokLevelFatal, " msg=application ",
              TokTransitionedFrom, "Progressing", TokToDegraded>>
      [] o = "degraded_lines" ->
            <<"time=t ", TokLevelFatal, " msg=", "\n", "application 'app' ",
              TokTransitionedFrom, "\n", "Healthy", "\n", TokToDegraded, "\n">>
      [] o = "degraded_case" ->
            <<"time=t ", "LEVEL=FATAL", " msg=application ",
              "Health state has transitioned from ", "Progressing",
              " to degraded">>
      [] o = "other" -> <<"time=t ", TokLevelFatal, " msg=timed out waiting">>
      [] OTHER -> <<"Health Status: Healthy">>

\* variant: the buffer of the attempt before is written on
StringIOKept(previous) == previous

\* argocd_output_buff = StringIO(): each attempt starts with an empty buffer,
\* whatever the buffer of the attempt before holds
StringIO(previous) == <<>>

Scripts(outcomes) == [1..MaxScript -> outcomes]

(***************************************************************************)
(* State.                                                                  *)
(***************************************************************************)
VARIABLES
    entry,                  \* the function this run calls
    pc,                     \* the call about to be made, "returned" or "raised"
    calls,                  \* external commands run so far, in order
    exc,                    \* the exception that left the entry function
    results,                \* deploy's results dict
    syncScript,             \* outcome of the n-th `argocd app sync` call
    healthScript,           \* outcome of the n-th `argocd app wait --health` call
    argocd_sync_prune,      \* _argocd_app_sync's parameter
    wait_for_op_retry,      \* loop variable of _argocd_app_sync
    wait_for_health_retry,  \* loop variable of _argocd_app_wait_for_health
    max_attempt_op,         \* value of MAX_ATTEMPT_TO_WAIT_FOR_ARGOCD_OP_RETRIES
    max_attempt_health,     \* value of MAX_ATTEMPT_TO_WAIT_FOR_ARGOCD_HEALTH_RETRIES
    argocd_output_buff,     \* the StringIO buffer of the current attempt
    repo_url,               \* the repository URL clone_repo and the push are given
    username,               \* their username argument
    password,               \* their password argument
    repo_url_with_auth,     \* the URL `git clone` was run with
    push_url,               \* the url `git push` was run with, None for no url
    auto_sync,              \* _argocd_app_create_or_update's parameter
    values_files,           \* _argocd_app_create_or_update's parameter
    manifest,               \* documents of the manifest file
    host_urls               \* value returned by _get_deployed_host_urls

vars == <<entry, pc, calls, exc, results, syncScript, healthScript,
          argocd_sync_prune, wait_for_op_retry, wait_for_health_retry,
          max_attempt_op, max_attempt_health, argocd_output_buff,
          repo_url, username, password, repo_url_with_auth, push_url,
          auto_sync, values_files, manifest, host_urls>>

\* the two scripts' deploy()
DeployEntries == {"deploy", "gitops_deploy"}
\* _git_push_deployment_config_repo of update-gitops-repo.py, called alone
GitopsPushEntry == "gitops__git_push_deployment_config_repo"
\* the functions that take a repository URL, called alone
UrlEntries == {"clone_repo", "_git_push_deployment_config_repo", GitopsPushEntry}
Entries == DeployEntries \cup UrlEntries \cup
    {     "_argocd_sign_in", "_argocd_app_create_or_update", "_argocd_app_sync",
     "_argocd_app_wait_for_health", "_argocd_get_app_manifest",
     "_get_deployed_host_urls"}

\* locals of deploy() in argocd-deploy.py
deploy_argocd_sync_retry_limit == PyInt(20)
deploy_argocd_sync_prune == PyBool(FALSE)
deploy_environment == "DEV"
deploy_argocd_auto_sync == PyBool(TRUE)
\* [] + '' + ['values-DEV.yaml'] + ''
deploy_argocd_values_files == List(<<Str("values-DEV.yaml")>>)

Run(cmd, ok) == [cmd |-> cmd, ok |-> ok]
\* a command logged with its argument list
RunArgs(cmd, ok, args) == [cmd |-> cmd, ok |-> ok, args |-> args]
NumCalls(cmd) == Cardinality({i \in 1..Len(calls) : calls[i].cmd = cmd})

(***************************************************************************)
(* Calls: a call that leaves out a parameter without default raises        *)
(* TypeError before the callee's body runs.                                *)
(***************************************************************************)
RequiredParams(script, fn) ==
    CASE fn = "_git_push_deployment_config_repo" ->
            {"deployment_config_repo", "deployment_config_repo_dir",
             "username", "password"}
      [] fn = "_git_push" ->
            IF script = "deploy" THEN {"repo_dir", "tag"} ELSE {"repo_dir"}
      [] fn = "_argocd_get_app_manifest" -> {"self", "argocd_app_name"}
      [] OTHER -> {}

\* the keyword arguments each call site passes
SuppliedArgs(caller, fn) ==
    CASE fn = "_git_push_deployment_config_repo" /\ caller = "deploy" ->
            {"deployment_config_repo", "deployment_config_repo_dir"}
      [] fn = "_git_push_deployment_config_repo" /\ caller # "deploy" ->
            {"deployment_config_repo", "deployment_config_repo_dir",
             "username", "password"}
      [] fn = "_git_push" -> {"repo_dir", "url"}
      [] fn = "_argocd_get_app_manifest" /\ caller = "deploy" ->
            {"argocd_app_name"}
      [] fn = "_argocd_get_app_manifest" -> {"self", "argocd_app_name"}
      [] OTHER -> {}

ScriptOf(e) ==
    IF e \in {"gitops_deploy", GitopsPushEntry} THEN "gitops_deploy" ELSE "deploy"

MissingArgs(caller, fn) ==
    RequiredParams(ScriptOf(caller), fn) \ SuppliedArgs(caller, fn)

MissingArgsError == Exc("TypeError", <<"missing required positional argument">>)

(***************************************************************************)
(* deploy(): the order of the stages and the except clause.                *)
(***************************************************************************)
NextStage(e, stage) ==
    CASE stage = "clone" -> "update_yaml"
      [] stage = "update_yaml" -> "commit"
      [] stage = "commit" -> "push"
      [] stage = "push" -> IF e = "deploy" THEN "sign_in" ELSE "returned"
      [] stage = "sign_in" -> "create_or_update"
      [] stage = "create_or_update" -> "app_sync"
      [] stage = "app_sync" -> "get_manifest"
      [] stage = "get_manifest" -> "host_urls"
      [] OTHER -> "returned"

\* where control goes when the function of `stage` returns
AfterStage(stage) ==
    IF entry \in DeployEntries THEN NextStage(entry, stage) ELSE "returned"

\* `except RuntimeError as error` of deploy()
DeployCatches(e) == e.type = "RuntimeError"

\* variant: the message leaves the error out
DeployMessageWithoutError(e) ==
    <<"Error deploying to environment (", deploy_environment, "): ">>

DeployMessage(e) ==
    <<"Error deploying to environment (", deploy_environment, "): ">> \o e.text

\* an exception raised below the entry function
Throw(e) ==
    /\ IF entry \in DeployEntries /\ DeployCatches(e)
       THEN /\ pc' = "returned"
            /\ exc' = NoExc
            /\ results' = DictSet(DictSet(results, "success", FALSE),
                                  "message", DeployMessage(e))
       ELSE /\ pc' = "raised"
            /\ exc' = e
            /\ UNCHANGED results
    /\ UNCHANGED <<argocd_sync_prune, wait_for_op_retry, wait_for_health_retry>>

(***************************************************************************)
(* The two for loops.  `for x in range(n)` runs its body for x = 0..n-1    *)
(* and falls through to the statement after the loop when the range is     *)
(* used up.                                                                *)
(***************************************************************************)
\* range of the loop of _argocd_app_sync
SyncLoopRange == max_attempt_op
\* range of the loop of _argocd_app_wait_for_health
HealthLoopRange == max_attempt_op

\* where control goes when _argocd_app_wait_for_health returns
AfterHealth ==
    IF entry = "_argocd_app_wait_for_health" THEN "returned"
    ELSE AfterStage("app_sync")

\* iteration i of the loop of _argocd_app_wait_for_health
\* variant: the health loop has no last iteration
HealthLoopUnbounded(i) ==
    pc' = "wait_health" /\ wait_for_health_retry' = i

HealthLoop(i) ==
    IF i < HealthLoopRange
    THEN pc' = "wait_health" /\ wait_for_health_retry' = i
    ELSE pc' = AfterHealth /\ UNCHANGED wait_for_health_retry

\* iteration i of the loop of _argocd_app_sync; after the loop, the health wait
\* variant: a retry requests the sync again without waiting first
SyncLoopNoRewait(i) ==
    IF i < SyncLoopRange
    THEN /\ pc' = IF i = 0 THEN "wait_op" ELSE "sync"
         /\ wait_for_op_retry' = i
         /\ UNCHANGED wait_for_health_retry
    ELSE HealthLoop(0) /\ UNCHANGED wait_for_op_retry

SyncLoop(i) ==
    IF i < SyncLoopRange
    THEN pc' = "wait_op" /\ wait_for_op_retry' = i /\ UNCHANGED wait_for_health_retry
    ELSE HealthLoop(0) /\ UNCHANGED wait_for_op_retry

\* the value deploy() passes as argocd_sync_prune
DeploySyncPruneArg == deploy_argocd_sync_retry_limit

\* control passes to `stage`; exc and results are set by the caller
Goto(stage) ==
    IF stage = "app_sync"
    THEN SyncLoop(0) /\ argocd_sync_prune' = DeploySyncPruneArg
    ELSE /\ pc' = stage
         /\ UNCHANGED <<argocd_sync_prune, wait_for_op_retry, wait_for_health_retry>>

(***************************************************************************)
(* _get_deployed_host_urls: the Python operations it applies to the parsed *)
(* documents, with the exceptions they raise on values of another shape.   *)
(***************************************************************************)
\* a document yaml.load_all cannot parse: the generator raises when it gets there
Unparseable == [t |-> "unparseable"]

\* `needle in hay` on str: the sample strings contain one another only when equal
StrContains(hay, needle) == hay = needle

\* `needle in v`: "yes", "no" or the exception type
PyIn(needle, v) ==
    CASE v.t = "dict" ->
            IF needle.t = "str" /\ needle.s \in DOMAIN v.m THEN "yes" ELSE "no"
      [] v.t = "list" ->
            IF \E i \in 1..Len(v.l) : v.l[i] = needle THEN "yes" ELSE "no"
      [] v.t = "str" ->
            IF needle.t # "str" THEN "TypeError"
            ELSE IF StrContains(v.s, needle.s) THEN "yes" ELSE "no"
      [] OTHER -> "TypeError"

\* `for x in v` is possible
Iterable(v) == v.t \in {"list", "dict"}

RECURSIVE KeysSeq(_)
KeysSeq(ks) ==
    IF ks = {} THEN <<>>
    ELSE LET k == CHOOSE x \in ks : TRUE IN <<Str(k)>> \o KeysSeq(ks \ {k})

\* the items `for x in v` visits
Items(v) == IF v.t = "list" THEN v.l ELSE KeysSeq(DOMAIN v.m)

\* str(v) inside an f-string
PyStr(v) ==
    CASE v.t = "str" -> v.s
      [] v.t = "none" -> "None"
      [] OTHER -> "<object>"

\* f"{protocol}{host}"
HostUrl(tls, host) == <<IF tls THEN "https://" ELSE "http://", PyStr(host)>>

Urls(us) == [err |-> "none", urls |-> us]
Raises(type) == [err |-> type, urls |-> <<>>]

\* variant: a Route is TLS as soon as its spec has a tls key
RouteUrlsTlsKeyOnly(doc) ==
    IF "spec" \notin DOMAIN doc.m THEN Raises("KeyError")
    ELSE LET spec == doc.m["spec"]
             hasHost == PyIn(Str("host"), spec)
         IN  IF hasHost = "TypeError" THEN Raises("TypeError")
             ELSE IF hasHost = "no" THEN Urls(<<>>)
             ELSE IF spec.t # "dict" THEN Raises("TypeError")
             ELSE Urls(<<HostUrl("tls" \in DOMAIN spec.m, spec.m["host"])>>)

\* lines 641-659: the Route branch
RouteUrls(doc) ==
    IF "spec" \notin DOMAIN doc.m THEN Raises("KeyError")
    ELSE LET spec == doc.m["spec"]
             hasHost == PyIn(Str("host"), spec)
         IN  IF hasHost = "TypeError" THEN Raises("TypeError")
             ELSE IF hasHost = "no" THEN Urls(<<>>)
             ELSE IF spec.t # "dict" THEN Raises("TypeError")
             ELSE LET host == spec.m["host"]
                      tls == "tls" \in DOMAIN spec.m /\ Truthy(spec.m["tls"])
                  IN  Urls(<<HostUrl(tls, host)>>)

\* lines 672-675: "yes" when an entry of spec.tls lists the host
RECURSIVE TlsLoop(_, _, _)
TlsLoop(entries, host, i) ==
    IF i > Len(entries) THEN "no"
    ELSE LET tls_config == entries[i]
             hasHosts == PyIn(Str("hosts"), tls_config)
         IN  IF hasHosts = "TypeError" THEN "TypeError"
             ELSE IF hasHosts = "no" THEN TlsLoop(entries, host, i + 1)
             ELSE IF tls_config.t # "dict" THEN "TypeError"
             ELSE LET listed == PyIn(host, tls_config.m["hosts"])
                  IN  IF listed = "no" THEN TlsLoop(entries, host, i + 1)
                      ELSE listed

\* variant: a rule is TLS as soon as some tls entry lists hosts
IngressTlsAnyHosts(spec, host) ==
    IF "tls" \notin DOMAIN spec.m THEN "no"
    ELSE IF ~Iterable(spec.m["tls"]) THEN "TypeError"
    ELSE IF \E j \in 1..Len(Items(spec.m["tls"])) :
                PyIn(Str("hosts"), Items(spec.m["tls"])[j]) = "yes"
         THEN "yes" ELSE "no"

\* lines 670-675
IngressTls(spec, host) ==
    IF "tls" \notin DOMAIN spec.m THEN "no"
    ELSE IF ~Iterable(spec.m["tls"]) THEN "TypeError"
    ELSE TlsLoop(Items(spec.m["tls"]), host, 1)

\* lines 664-685: the loop over the rules
RECURSIVE RulesLoop(_, _, _)
RulesLoop(spec, ingress_rules, i) ==
    IF i > Len(ingress_rules) THEN Urls(<<>>)
    ELSE LET rule == ingress_rules[i]
             hasHost == PyIn(Str("host"), rule)
         IN  IF hasHost = "TypeError" THEN Raises("TypeError")
             ELSE IF hasHost = "no" THEN RulesLoop(spec, ingress_rules, i + 1)
             ELSE IF rule.t # "dict" THEN Raises("TypeError")
             ELSE LET host == rule.m["host"]
                      tls == IngressTls(spec, host)
                      rest == RulesLoop(spec, ingress_rules, i + 1)
                  IN  IF tls \notin {"yes", "no"} THEN Raises(tls)
                      ELSE IF rest.err # "none" THEN rest
                      ELSE Urls(<<HostUrl(tls = "yes", host)>> \o rest.urls)

\* lines 662-685: the Ingress branch
IngressUrls(doc) ==
    IF "spec" \notin DOMAIN doc.m THEN Raises("KeyError")
    ELSE LET spec == doc.m["spec"]
         IN  IF spec.t # "dict" THEN Raises("TypeError")
             ELSE IF "rules" \notin DOMAIN spec.m THEN Raises("KeyError")
             ELSE IF ~Iterable(spec.m["rules"]) THEN Raises("TypeError")
             ELSE RulesLoop(spec, Items(spec.m["rules"]), 1)

\* variant: the kind alone decides, whatever the apiVersion
ResourceUrlsKindOnly(manifest_resource) ==
    IF manifest_resource.t = "none" THEN Urls(<<>>)
    ELSE LET hasKind == PyIn(Str("kind"), manifest_resource)
         IN  IF hasKind = "TypeError" THEN Raises("TypeError")
             ELSE IF hasKind = "no" THEN Urls(<<>>)
             ELSE IF manifest_resource.t # "dict" THEN Raises("TypeError")
             ELSE IF "apiVersion" \notin DOMAIN manifest_resource.m
                  THEN Raises("KeyError")
             ELSE IF manifest_resource.m["kind"] = Str("Route")
                  THEN RouteUrls(manifest_resource)
             ELSE IF manifest_resource.m["kind"] = Str("Ingress")
                  THEN IngressUrls(manifest_resource)
             ELSE Urls(<<>>)

\* lines 632-685: the body of the loop over the documents
ResourceUrls(manifest_resource) ==
    IF manifest_resource.t = "none" THEN Urls(<<>>)
    ELSE LET hasKind == PyIn(Str("kind"), manifest_resource)
         IN  IF hasKind = "TypeError" THEN Raises("TypeError")
             ELSE IF hasKind = "no" THEN Urls(<<>>)
             ELSE IF manifest_resource.t # "dict" THEN Raises("TypeError")
             ELSE IF "apiVersion" \notin DOMAIN manifest_resource.m
                  THEN Raises("KeyError")
             ELSE LET kind == manifest_resource.m["kind"]
                      api_version == manifest_resource.m["apiVersion"]
                  IN  IF kind = Str("Route") /\ api_version = Str("route.openshift.io/v1")
                      THEN RouteUrls(manifest_resource)
                      ELSE IF kind = Str("Ingress")
                              /\ api_version = Str("networking.k8s.io/v1")
                      THEN IngressUrls(manifest_resource)
                      ELSE Urls(<<>>)

\* lines 623-687: the loop over the documents of the manifest
RECURSIVE ManifestLoop(_, _)
ManifestLoop(manifest_resources, i) ==
    IF i > Len(manifest_resources) THEN Urls(<<>>)
    ELSE IF manifest_resources[i].t = "unparseable" THEN Raises("YAMLError")
    ELSE LET this == ResourceUrls(manifest_resources[i])
             rest == ManifestLoop(manifest_resources, i + 1)
         IN  IF this.err # "none" THEN this
             ELSE IF rest.err # "none" THEN rest
             ELSE Urls(this.urls \o rest.urls)

\* variant: the loop leaves the first document out
HostUrlsAfterFirst(manifest_resources) == ManifestLoop(manifest_resources, 2)

HostUrls(manifest_resources) == ManifestLoop(manifest_resources, 1)

(***************************************************************************)
(* The manifests the model feeds to _get_deployed_host_urls.               *)
(***************************************************************************)
HostA == "a.example.com"
HostB == "b.example.com"

SeqsUpTo(S, n) == UNION {[1..k -> S] : k \in 0..n}

RouteSpecs ==
    {None, Dict(<<>>)}
    \cup {Dict([host |-> Str(HostA)])}
    \cup {Dict([tls |-> t]) : t \in {None, Dict([termination |-> Str("edge")])}}
    \cup {Dict([host |-> Str(HostA), tls |-> t]) :
            t \in {None, Dict(<<>>), Dict([termination |-> Str("edge")])}}

RouteDocs ==
    {Dict([kind |-> Str("Route"), apiVersion |-> Str("route.openshift.io/v1")])}
    \cup {Dict([kind |-> Str("Route"), apiVersion |-> Str("route.openshift.io/v1"),
                spec |-> sp]) : sp \in RouteSpecs}

RuleSamples ==
    {Dict([host |-> Str(HostA)]), Dict([host |-> Str(HostB)]),
     Dict([http |-> Str("paths")])}

TlsEntryNoHosts == Dict([secretName |-> Str("cert")])
TlsEntry(hosts) == Dict([hosts |-> List(hosts)])

IngressTlsSamples ==
    {None, List(<<>>), List(<<TlsEntryNoHosts>>),
     List(<<TlsEntry(<<Str(HostA)>>)>>),
     List(<<TlsEntryNoHosts, TlsEntry(<<Str(HostB)>>)>>)}

IngressSpecs ==
    {None, Dict(<<>>), Dict([rules |-> None])}
    \cup {Dict([rules |-> List(rs)]) : rs \in SeqsUpTo(RuleSamples, MaxRules)}
    \cup {Dict([rules |-> List(rs), tls |-> t]) :
            rs \in SeqsUpTo(RuleSamples, MaxRules), t \in IngressTlsSamples}

IngressDocs ==
    {Dict([kind |-> Str("Ingress"), apiVersion |-> Str("networking.k8s.io/v1")])}
    \cup {Dict([kind |-> Str("Ingress"), apiVersion |-> Str("networking.k8s.io/v1"),
                spec |-> sp]) : sp \in IngressSpecs}

OtherDocs ==
    {None, Unparseable, Str("hello"), PyInt(42),
     Dict([apiVersion |-> Str("v1")]),
     Dict([kind |-> Str("Route")]),
     Dict([kind |-> Str("ConfigMap"), apiVersion |-> Str("v1")]),
     Dict([kind |-> Str("Route"), apiVersion |-> Str("v1"),
           spec |-> Dict([host |-> Str(HostA)])]),
     Dict([kind |-> Str("Ingress"), apiVersion |-> Str("extensions/v1beta1"),
           spec |-> Dict([rules |-> List(<<Dict([host |-> Str(HostA)])>>)])])}

Docs == RouteDocs \cup IngressDocs \cup OtherDocs

\* the documents that manifests of several documents are made of
CoreDocs ==
    {None, Unparseable, Str("hello"), PyInt(42),
     Dict([kind |-> Str("ConfigMap"), apiVersion |-> Str("v1")]),
     Dict([kind |-> Str("Route")]),
     Dict([kind |-> Str("Route"), apiVersion |-> Str("route.openshift.io/v1"),
           spec |-> Dict([host |-> Str(HostA)])]),
     Dict([kind |-> Str("Route"), apiVersion |-> Str("route.openshift.io/v1"),
           spec |-> Dict([host |-> Str(HostA), tls |-> None])]),
     Dict([kind |-> Str("Route"), apiVersion |-> Str("route.openshift.io/v1"),
           spec |-> Dict([host |-> Str(HostA),
                          tls |-> Dict([termination |-> Str("edge")])])]),
     Dict([kind |-> Str("Route"), apiVersion |-> Str("route.openshift.io/v1"),
           spec |-> Dict([tls |-> Dict([termination |-> Str("edge")])])]),
     Dict([kind |-> Str("Ingress"), apiVersion |-> Str("networking.k8s.io/v1"),
           spec |-> Dict([rules |-> List(<<Dict([host |-> Str(HostB)])>>)])]),
     Dict([kind |-> Str("Ingress"), apiVersion |-> Str("networking.k8s.io/v1"),
           spec |-> Dict([rules |-> List(<<Dict([host |-> Str(HostA)]),
                                           Dict([host |-> Str(HostB)])>>),
                          tls |-> List(<<TlsEntry(<<Str(HostA)>>)>>)])]),
     Dict([kind |-> Str("Ingress"), apiVersion |-> Str("networking.k8s.io/v1"),
           spec |-> Dict([rules |-> List(<<Dict([host |-> Str(HostA)])>>),
                          tls |-> None])])}

\* every document alone, and the manifests of up to MaxDocs core documents
Manifests == {<<d>> : d \in Docs} \cup SeqsUpTo(CoreDocs, MaxDocs)

\* what `argocd app manifests` may write for deploy()
DeployManifests ==
    {<<>>,
     <<Dict([kind |-> Str("Route"), apiVersion |-> Str("route.openshift.io/v1"),
             spec |-> Dict([host |-> Str(HostA)])])>>}

(***************************************************************************)
(* Initial states: one call of one function of the module.                 *)
(***************************************************************************)
\* arguments of _argocd_app_create_or_update
AutoSyncSamples ==
    {PyBool(TRUE), PyBool(FALSE), Str("true"), Str("True"), Str("false"),
     Str("yes"), Str(""), PyInt(1), None}
ValuesFilesSamples ==
    {None, List(<<>>), List(<<Str("values-DEV.yaml")>>),
     List(<<Str("values.yaml"), Str("values-DEV.yaml")>>),
     List(<<Str("values-DEV.yaml"), Str("values.yaml")>>)}

\* deployment_config_repo of the two deploy functions, as protocol and address
deploy_deployment_config_repo ==
    <<"http://", "gitea.tssc.rht-set.com/ploigos-reference-applications/reference-quarkus-mvn-cloud-resources.git">>
gitops_deployment_config_repo ==
    <<"https://", "github.com/dwinchell-robot/reference-quarkus-mvn-cloud-resources.git">>

\* repository URLs, usernames and passwords given to clone_repo and to
\* _git_push_deployment_config_repo when they are called alone
UrlSamples ==
    {<<"https://", "host/repo.git">>, <<"http://", "host/repo.git">>,
     <<"HTTPS://", "host/repo.git">>, <<"ssh://", "git@host/repo.git">>,
     <<"git@host:repo.git">>}
UsernameSamples == {None, Str(""), Str("user")}
PasswordSamples == {None, Str(""), Str("secret")}

\* the values a retry maximum has in a run: the one of the source, and for
\* a run of _argocd_app_wait_for_health alone also the others up to MaxAttempts
MaximaOf(default) ==
    IF entry = "_argocd_app_wait_for_health" THEN 1..MaxAttempts ELSE {default}

AllOk == [i \in 1..MaxScript |-> "ok"]

Init ==
    /\ entry \in Entries
    /\ max_attempt_op \in MaximaOf(MAX_ATTEMPT_TO_WAIT_FOR_ARGOCD_OP_RETRIES)
    /\ max_attempt_health \in MaximaOf(MAX_ATTEMPT_TO_WAIT_FOR_ARGOCD_HEALTH_RETRIES)
    /\ calls = <<>>
    /\ exc = NoExc
    /\ host_urls = <<>>
    /\ wait_for_op_retry = 0
    /\ wait_for_health_retry = 0
    /\ pc = CASE entry \in DeployEntries \cup {"clone_repo"} -> "clone"
              [] entry \in {"_git_push_deployment_config_repo", GitopsPushEntry} ->
                    "push"
              [] entry = "_argocd_sign_in" -> "sign_in"
              [] entry = "_argocd_app_create_or_update" -> "create_or_update"
              [] entry = "_argocd_app_sync" ->
                    IF 0 < SyncLoopRange THEN "wait_op"
                    ELSE IF 0 < HealthLoopRange THEN "wait_health" ELSE "returned"
              [] entry = "_argocd_app_wait_for_health" ->
                    IF 0 < HealthLoopRange THEN "wait_health" ELSE "returned"
              [] entry = "_argocd_get_app_manifest" -> "get_manifest"
              [] entry = "_get_deployed_host_urls" -> "host_urls"
    /\ results = CASE entry = "deploy" ->
                        [k \in {"argocd-app-name", "container-image-deployed-address"} |->
                            IF k = "argocd-app-name" THEN "argocd_app_name" ELSE ""]
                   [] entry = "gitops_deploy" ->
                        [k \in {"container-image-deployed-address"} |-> "image:tag"]
                   [] OTHER -> <<>>
    /\ syncScript \in CASE entry = "_argocd_app_sync" -> Scripts(SyncOutcomes)
                        [] entry = "deploy" -> Scripts(BasicSyncOutcomes)
                        [] OTHER -> {AllOk}
    /\ healthScript \in
            CASE entry = "_argocd_app_wait_for_health" -> Scripts(HealthOutcomes)
              [] entry \in {"deploy", "_argocd_app_sync"} ->
                    Scripts(BasicHealthOutcomes)
              [] OTHER -> {AllOk}
    /\ argocd_sync_prune \in IF entry = "_argocd_app_sync"
                             THEN {PyBool(TRUE), PyBool(FALSE)} ELSE {None}
    /\ argocd_output_buff = <<>>
    /\ repo_url \in CASE entry \in UrlEntries -> UrlSamples
                      [] entry = "gitops_deploy" -> {gitops_deployment_config_repo}
                      [] OTHER -> {deploy_deployment_config_repo}
    /\ username \in CASE entry \in UrlEntries -> UsernameSamples
                      [] entry = "gitops_deploy" -> {Str("dwinchell-robot")}
                      [] OTHER -> {Str("")}
    /\ password \in CASE entry \in UrlEntries -> PasswordSamples
                      [] entry = "gitops_deploy" -> {Str(""), Str("secret")}
                      [] OTHER -> {Str("")}
    /\ repo_url_with_auth = None
    /\ push_url = None
    /\ auto_sync \in IF entry = "_argocd_app_create_or_update"
                     THEN AutoSyncSamples ELSE {deploy_argocd_auto_sync}
    /\ values_files \in IF entry = "_argocd_app_create_or_update"
                        THEN ValuesFilesSamples ELSE {deploy_argocd_values_files}
    /\ manifest \in IF entry = "_get_deployed_host_urls" THEN Manifests ELSE {<<>>}

(***************************************************************************)
(* The functions deploy() calls.                                           *)
(***************************************************************************)
\* the git commands clone_repo runs, given how each would end, and the
\* command that made it raise ("" when none)
\* a URL string, as its pieces
Url(pieces) == [t |-> "url", pieces |-> pieces]

\* GIT_REPO_REGEX.match(url).groupdict(): the protocol group is None unless
\* the URL starts with https:// or http://, the address group is the rest
GIT_REPO_REGEX(url) ==
    IF Len(url) > 0 /\ url[1] \in {"https://", "http://"}
    THEN [protocol |-> Str(url[1]), address |-> Tail(url)]
    ELSE [protocol |-> None, address |-> url]

\* re.match(r'^http://|^https://', protocol)
ProtocolIsHttp(protocol) == protocol.s \in {"http://", "https://"}

\* f"{protocol}{username}:{password}@{address}"
UrlWithUserPass(m, user, pass) ==
    Url(<<m.protocol.s, PyStr(user), ":", PyStr(pass), "@">> \o m.address)

\* variant: the password is not looked at
CloneUrlAnyPassword(url, user, pass) ==
    LET repo_match == GIT_REPO_REGEX(url)
    IN  IF /\ Truthy(user)
           /\ Truthy(repo_match.protocol)
           /\ ProtocolIsHttp(repo_match.protocol)
        THEN UrlWithUserPass(repo_match, user, pass)
        ELSE Url(url)

\* lines 72-84 of clone_repo: the URL `git clone` is given
CloneUrl(url, user, pass) ==
    LET repo_match == GIT_REPO_REGEX(url)
    IN  IF /\ Truthy(user)
           /\ Truthy(pass)
           /\ Truthy(repo_match.protocol)
           /\ ProtocolIsHttp(repo_match.protocol)
        THEN UrlWithUserPass(repo_match, user, pass)
        ELSE Url(url)

\* _git_push_deployment_config_repo and _git_push: the url `git push` is
\* given, None when it is run without one
PushUrl(url, user, pass) ==
    LET deployment_config_repo_match == GIT_REPO_REGEX(url)
    IN  IF /\ Truthy(deployment_config_repo_match.protocol)
           /\ ProtocolIsHttp(deployment_config_repo_match.protocol)
        THEN UrlWithUserPass(deployment_config_repo_match, user, pass)
        ELSE None

\* variant: the branch is created whether or not its checkout succeeded
CloneRepoCommandsAlwaysNew(okClone, okCheckout, okCheckoutB, okEmail, okName) ==
    LET clone == <<Run("git clone", okClone)>>
        checkout == <<Run("git checkout", okCheckout), Run("git checkout -b", okCheckoutB)>>
        email == <<Run("git config user.email", okEmail)>>
        name == <<Run("git config user.name", okName)>>
    IN  IF ~okClone THEN clone
        ELSE IF ~okCheckoutB THEN clone \o checkout
        ELSE IF ~okEmail THEN clone \o checkout \o email
        ELSE clone \o checkout \o email \o name

CloneRepoCommands(okClone, okCheckout, okCheckoutB, okEmail, okName) ==
    LET clone == <<Run("git clone", okClone)>>
        checkout == IF okCheckout THEN <<Run("git checkout", TRUE)>>
                    ELSE <<Run("git checkout", FALSE), Run("git checkout -b", okCheckoutB)>>
        email == <<Run("git config user.email", okEmail)>>
        name == <<Run("git config user.name", okName)>>
    IN  IF ~okClone THEN clone
        ELSE IF ~okCheckout /\ ~okCheckoutB THEN clone \o checkout
        ELSE IF ~okEmail THEN clone \o checkout \o email
        ELSE clone \o checkout \o email \o name

\* a function that ran `cmds` raises iff its last command failed
LastFailed(cmds) == ~cmds[Len(cmds)].ok

clone_repo ==
    /\ pc = "clone"
    /\ \E okClone, okCheckout, okCheckoutB, okEmail, okName \in BOOLEAN :
        LET cmds == CloneRepoCommands(okClone, okCheckout, okCheckoutB, okEmail, okName)
        IN  /\ calls' = calls \o cmds
            /\ repo_url_with_auth' = CloneUrl(repo_url, username, password)
            /\ IF LastFailed(cmds)
               THEN Throw(RaiseStr(ErrorReturnCodeText(cmds[Len(cmds)].cmd)))
               ELSE Goto(AfterStage("clone")) /\ UNCHANGED <<exc, results>>
    /\ UNCHANGED <<entry, syncScript, healthScript, max_attempt_op, max_attempt_health,
                 argocd_output_buff, repo_url, username, password,
                 push_url, auto_sync,
                 values_files, manifest, host_urls>>

\* variant: a failed yq is ignored and the file is committed all the same
_update_yaml_file_value_Ignored ==
    /\ pc = "update_yaml"
    /\ \E ok \in BOOLEAN :
        /\ calls' = Append(calls, Run("yq", ok))
        /\ Goto(AfterStage("update_yaml")) /\ UNCHANGED <<exc, results>>
    /\ UNCHANGED <<entry, syncScript, healthScript, max_attempt_op, max_attempt_health,
                 argocd_output_buff, repo_url, username, password,
                 repo_url_with_auth, push_url, auto_sync,
                 values_files, manifest, host_urls>>

_update_yaml_file_value ==
    /\ pc = "update_yaml"
    /\ \E ok \in BOOLEAN :
        /\ calls' = Append(calls, Run("yq", ok))
        /\ IF ok THEN Goto(AfterStage("update_yaml")) /\ UNCHANGED <<exc, results>>
           ELSE Throw(RaiseStr(ErrorReturnCodeText("yq")))
    /\ UNCHANGED <<entry, syncScript, healthScript, max_attempt_op, max_attempt_health,
                 argocd_output_buff, repo_url, username, password,
                 repo_url_with_auth, push_url, auto_sync,
                 values_files, manifest, host_urls>>

\* variant: update-gitops-repo.py raises a str as argocd-deploy.py does
CommitErrorStr(script) ==
    RaiseStr(<<"Unexpected error commiting file in git repository: ">>
             \o ErrorReturnCodeText("git commit"))

\* the exception _git_commit_file raises when `git commit` fails
CommitError(script) ==
    IF script = "gitops_deploy"
    THEN RaiseRuntimeError(<<"Unexpected error commiting file in git repository: ">>
                           \o ErrorReturnCodeText("git commit"))
    ELSE RaiseStr(<<"Unexpected error commiting file in git repository: ">>
                  \o ErrorReturnCodeText("git commit"))

_git_commit_file ==
    /\ pc = "commit"
    /\ \E okAdd, okCommit \in BOOLEAN :
        IF ~okAdd
        THEN /\ calls' = Append(calls, Run("git add", FALSE))
             /\ Throw(RaiseStr(ErrorReturnCodeText("git add")))
        ELSE /\ calls' = calls \o <<Run("git add", TRUE), Run("git commit", okCommit)>>
             /\ IF okCommit
                THEN Goto(AfterStage("commit")) /\ UNCHANGED <<exc, results>>
                ELSE Throw(CommitError(ScriptOf(entry)))
    /\ UNCHANGED <<entry, syncScript, healthScript, max_attempt_op, max_attempt_health,
                 argocd_output_buff, repo_url, username, password,
                 repo_url_with_auth, push_url, auto_sync,
                 values_files, manifest, host_urls>>

_git_push_deployment_config_repo ==
    /\ pc = "push"
    /\ IF MissingArgs(entry, "_git_push_deployment_config_repo") # {}
          \/ MissingArgs(entry, "_git_push") # {}
       THEN Throw(MissingArgsError) /\ UNCHANGED <<calls, push_url>>
       ELSE \E ok \in BOOLEAN :
                /\ calls' = Append(calls, Run("git push", ok))
                /\ push_url' = PushUrl(repo_url, username, password)
                /\ IF ok THEN Goto(AfterStage("push")) /\ UNCHANGED <<exc, results>>
                   ELSE Throw(RaiseStr(ErrorReturnCodeText("git push")))
    /\ UNCHANGED <<entry, syncScript, healthScript, max_attempt_op, max_attempt_health,
                 argocd_output_buff, repo_url, username, password,
                 repo_url_with_auth, auto_sync,
                 values_files, manifest, host_urls>>

_argocd_sign_in ==
    /\ pc = "sign_in"
    /\ \E ok \in BOOLEAN :
        /\ calls' = Append(calls, Run("argocd login", ok))
        /\ IF ok THEN Goto(AfterStage("sign_in")) /\ UNCHANGED <<exc, results>>
           ELSE Throw(RaiseStr(ErrorReturnCodeText("argocd login")))
    /\ UNCHANGED <<entry, syncScript, healthScript, max_attempt_op, max_attempt_health,
                 argocd_output_buff, repo_url, username, password,
                 repo_url_with_auth, push_url, auto_sync,
                 values_files, manifest, host_urls>>

\* one argument of a command line, as the pieces of its f-string
Arg(pieces) == [t |-> "arg", pieces |-> pieces]

\* str(auto_sync).lower()
StrLower(v) ==
    CASE v.t = "bool" -> IF v.b THEN "true" ELSE "false"
      [] v.t = "none" -> "none"
      [] v.t = "str" -> IF v.s \in {"true", "True", "TRUE"} THEN "true"
                        ELSE IF v.s \in {"false", "False"} THEN "false"
                        ELSE v.s
      [] OTHER -> "<object>"

\* variant: every flag that is truthy switches automated sync on
sync_policy_truthy(auto) == IF Truthy(auto) THEN "automated" ELSE "none"

sync_policy(auto) == IF StrLower(auto) = "true" THEN "automated" ELSE "none"

\* None, or one --values= option per file, in the order of the files
values_params(files) ==
    IF Truthy(files)
    THEN List([i \in 1..Len(files.l) |-> Arg(<<"--values=", PyStr(files.l[i])>>)])
    ELSE None

\* variant: the command line without --upsert
CreateArgsNoUpsert(auto, files) ==
    <<Arg(<<"{argocd_app_name}">>),
      Arg(<<"--repo=", "{repo}">>),
      Arg(<<"--revision=", "{revision}">>),
      Arg(<<"--path=", "{path}">>),
      Arg(<<"--dest-server=", "{dest_server}">>),
      Arg(<<"--dest-namespace=", "{dest_namespace}">>),
      Arg(<<"--sync-policy=", sync_policy(auto)>>),
      Arg(<<"--project=", "{project}">>),
      values_params(files)>>

\* the arguments of sh.argocd.app.create
CreateArgs(auto, files) ==
    <<Arg(<<"{argocd_app_name}">>),
      Arg(<<"--repo=", "{repo}">>),
      Arg(<<"--revision=", "{revision}">>),
      Arg(<<"--path=", "{path}">>),
      Arg(<<"--dest-server=", "{dest_server}">>),
      Arg(<<"--dest-namespace=", "{dest_namespace}">>),
      Arg(<<"--sync-policy=", sync_policy(auto)>>),
      Arg(<<"--project=", "{project}">>),
      values_params(files),
      Arg(<<"--upsert">>)>>

\* a run that enters at _argocd_app_create_or_update calls it MaxInvocations
\* times with the same arguments
AfterCreateOrUpdate ==
    IF /\ entry = "_argocd_app_create_or_update"
       /\ NumCalls("argocd app create") + 1 < MaxInvocations
    THEN "create_or_update"
    ELSE AfterStage("create_or_update")

_argocd_app_create_or_update ==
    /\ pc = "create_or_update"
    /\ \E ok \in BOOLEAN :
        /\ calls' = Append(calls, RunArgs("argocd app create", ok,
                                          CreateArgs(auto_sync, values_files)))
        /\ IF ok THEN Goto(AfterCreateOrUpdate) /\ UNCHANGED <<exc, results>>
           ELSE Throw(RaiseStr(ErrorReturnCodeText("argocd app create")))
    /\ UNCHANGED <<entry, syncScript, healthScript, max_attempt_op, max_attempt_health,
                 argocd_output_buff, repo_url, username, password,
                 repo_url_with_auth, push_url, auto_sync,
                 values_files, manifest, host_urls>>

(***************************************************************************)
(* _argocd_app_sync and _argocd_app_wait_for_health.                       *)
(***************************************************************************)
\* what the n-th call of a scripted command does
Scripted(script, n) == IF n <= Len(script) THEN script[n] ELSE "ok"

\* variant: a failed wait is ignored and the sync is requested all the same
_argocd_app_wait_for_operation_Ignored ==
    /\ pc = "wait_op"
    /\ \E ok \in BOOLEAN :
        /\ calls' = Append(calls, Run("argocd app wait --operation", ok))
        /\ pc' = "sync"
        /\ UNCHANGED <<exc, results, argocd_sync_prune, wait_for_op_retry,
                       wait_for_health_retry>>
    /\ UNCHANGED <<entry, syncScript, healthScript, max_attempt_op, max_attempt_health,
                 argocd_output_buff, repo_url, username, password,
                 repo_url_with_auth, push_url, auto_sync,
                 values_files, manifest, host_urls>>

_argocd_app_wait_for_operation ==
    /\ pc = "wait_op"
    /\ \E ok \in BOOLEAN :
        /\ calls' = Append(calls, Run("argocd app wait --operation", ok))
        /\ IF ok
           THEN /\ pc' = "sync"
                /\ UNCHANGED <<exc, results, argocd_sync_prune, wait_for_op_retry,
                               wait_for_health_retry>>
           ELSE Throw(RaiseStr(ErrorReturnCodeText("argocd app wait --operation")))
    /\ UNCHANGED <<entry, syncScript, healthScript, max_attempt_op, max_attempt_health,
                 argocd_output_buff, repo_url, username, password,
                 repo_url_with_auth, push_url, auto_sync,
                 values_files, manifest, host_urls>>

PruneWarning == ". Sync 'prune' option is disabled."

\* lines 581-594: the text _argocd_app_sync builds for its raise statement
SyncErrorText(prune) ==
    <<"Error synchronization ArgoCD Application">>
    \o (IF ~Truthy(prune) THEN <<PruneWarning>> ELSE <<>>)
    \o <<": ">> \o ErrorReturnCodeText("argocd app sync")

\* lines 540-594: one `argocd app sync` call and what follows it
_argocd_app_sync ==
    /\ pc = "sync"
    /\ LET o == Scripted(syncScript, NumCalls("argocd app sync") + 1)
           buff == StringIO(argocd_output_buff) \o SyncOutput(o)
       IN  /\ calls' = Append(calls, Run("argocd app sync", o = "ok"))
           /\ argocd_output_buff' = buff
           /\ IF o = "ok"
              THEN /\ HealthLoop(0)
                   /\ UNCHANGED <<exc, results, argocd_sync_prune, wait_for_op_retry>>
              ELSE IF ARGOCD_OP_IN_PROGRESS_REGEX(buff)
              THEN /\ SyncLoop(wait_for_op_retry + 1)
                   /\ UNCHANGED <<exc, results, argocd_sync_prune>>
              ELSE Throw(RaiseStr(SyncErrorText(argocd_sync_prune)))
    /\ UNCHANGED <<entry, syncScript, healthScript, max_attempt_op, max_attempt_health,
                 repo_url, username, password,
                 repo_url_with_auth, push_url, auto_sync, values_files, manifest, host_urls>>

\* lines 472-514: one `argocd app wait --health` call and what follows it
_argocd_app_wait_for_health ==
    /\ pc = "wait_health"
    /\ LET o == Scripted(healthScript, NumCalls("argocd app wait --health") + 1)
           buff == StringIO(argocd_output_buff) \o HealthOutput(o)
       IN  /\ calls' = Append(calls, Run("argocd app wait --health", o = "ok"))
           /\ argocd_output_buff' = buff
           /\ IF o = "ok"
              THEN /\ pc' = AfterHealth
                   /\ UNCHANGED <<exc, results, argocd_sync_prune, wait_for_op_retry,
                                  wait_for_health_retry>>
              ELSE IF ARGOCD_HEALTH_STATE_TRANSITIONED_FROM_HEALTHY_TO_DEGRADED(buff)
              THEN /\ HealthLoop(wait_for_health_retry + 1)
                   /\ UNCHANGED <<exc, results, argocd_sync_prune, wait_for_op_retry>>
              ELSE Throw(RaiseStr(<<"Error waiting for Healthy ArgoCD Application: ">>
                                  \o ErrorReturnCodeText("argocd app wait --health")))
    /\ UNCHANGED <<entry, syncScript, healthScript, max_attempt_op, max_attempt_health,
                 repo_url, username, password,
                 repo_url_with_auth, push_url, auto_sync, values_files, manifest, host_urls>>

(***************************************************************************)
(* The manifest and its host URLs.                                         *)
(***************************************************************************)
ManifestPath == "./deploy_argocd_manifests.yml"

_argocd_get_app_manifest ==
    /\ pc = "get_manifest"
    /\ IF MissingArgs(entry, "_argocd_get_app_manifest") # {}
       THEN Throw(MissingArgsError) /\ UNCHANGED <<calls, manifest>>
       ELSE \E ok \in BOOLEAN, written \in DeployManifests :
                /\ calls' = Append(calls, Run("argocd app manifests", ok))
                /\ IF ok
                   THEN /\ Goto(AfterStage("get_manifest"))
                        /\ manifest' = written
                        /\ exc' = exc
                        /\ results' = IF entry \in DeployEntries
                                      THEN DictSet(results, "argocd-deployed-manifest",
                                                   ManifestPath)
                                      ELSE results
                   ELSE /\ Throw(RaiseStr(ErrorReturnCodeText("argocd app manifests")))
                        /\ UNCHANGED manifest
    /\ UNCHANGED <<entry, syncScript, healthScript, max_attempt_op, max_attempt_health,
                 argocd_output_buff, repo_url, username, password,
                 repo_url_with_auth, push_url, auto_sync,
                 values_files, host_urls>>

\* the exception an error of _get_deployed_host_urls is
UrlsError(type) == Exc(type, <<"_get_deployed_host_urls">>)

_get_deployed_host_urls ==
    /\ pc = "host_urls"
    /\ LET r == HostUrls(manifest)
       IN  IF r.err # "none"
           THEN Throw(UrlsError(r.err)) /\ UNCHANGED host_urls
           ELSE /\ host_urls' = r.urls
                /\ Goto(AfterStage("host_urls"))
                /\ exc' = exc
                /\ results' = IF entry \in DeployEntries
                              THEN DictSet(results, "deployed-host-urls", r.urls)
                              ELSE results
    /\ UNCHANGED <<entry, calls, syncScript, healthScript, max_attempt_op, max_attempt_health,
                 argocd_output_buff, repo_url, username, password,
                 repo_url_with_auth, push_url, auto_sync,
                 values_files, manifest>>

Next ==
    \/ clone_repo
    \/ _update_yaml_file_value
    \/ _git_commit_file
    \/ _git_push_deployment_config_repo
    \/ _argocd_sign_in
    \/ _argocd_app_create_or_update
    \/ _argocd_app_wait_for_operation
    \/ _argocd_app_sync
    \/ _argocd_app_wait_for_health
    \/ _argocd_get_app_manifest
    \/ _get_deployed_host_urls

Spec == Init /\ [][Next]_vars

\* every external command returns: a run that can take a step takes one
FairSpec == Spec /\ WF_vars(Next)

(***************************************************************************)
(* Vocabulary of the properties.                                           *)
(***************************************************************************)
Terminal == pc \in {"returned", "raised"}
\* terminal states of a run of _argocd_app_sync / _argocd_app_wait_for_health
Done == pc = "returned"
Failed == pc = "raised"

HasKey(d, k) == k \in DOMAIN d
Contains(text, tok) == \E i \in 1..Len(text) : text[i] = tok
AllCallsOk == \A i \in 1..Len(calls) : calls[i].ok
LastCallFailed == Len(calls) > 0 /\ ~calls[Len(calls)].ok
Called(cmd) == \E i \in 1..Len(calls) : calls[i].cmd = cmd
CalledOk(cmd) == \E i \in 1..Len(calls) : calls[i].cmd = cmd /\ calls[i].ok

\* the environment in which every sync / health call would fail the same way
EverySync(o) == \A i \in 1..MaxScript : syncScript[i] = o
EveryHealth(o) == \A i \in 1..MaxScript : healthScript[i] = o

\* the stage of the pipeline a command belongs to
StageRank(cmd) ==
    CASE cmd \in {"git clone", "git checkout", "git checkout -b",
                  "git config user.email", "git config user.name"} -> 1
      [] cmd = "yq" -> 2
      [] cmd \in {"git add", "git commit"} -> 3
      [] cmd = "git push" -> 4
      [] cmd = "argocd login" -> 5
      [] cmd = "argocd app create" -> 6
      [] cmd \in {"argocd app wait --operation", "argocd app sync",
                  "argocd app wait --health"} -> 7
      [] OTHER -> 8

(***************************************************************************)
(* C1.  In a run of _argocd_app_sync in which every `argocd app sync`     *)
(* call fails with the operation-in-progress output, the run ends in      *)
(* Failed, after at most MAX_ATTEMPT_TO_WAIT_FOR_ARGOCD_OP_RETRIES        *)
(* retries of the sync call.                                               *)
(***************************************************************************)
C1_ContentionExhaustedFails ==
    (entry = "_argocd_app_sync" /\ Terminal /\ EverySync("contention"))
        => /\ Failed
           /\ NumCalls("argocd app sync")
                <= MAX_ATTEMPT_TO_WAIT_FOR_ARGOCD_OP_RETRIES + 1

(***************************************************************************)
(* C2.  A run of _argocd_app_wait_for_health ends in Done only after a    *)
(* successful `argocd app wait --health` call; when every call fails with *)
(* the transitioned-to-Degraded output the run ends in Failed after at    *)
(* most MAX_ATTEMPT_TO_WAIT_FOR_ARGOCD_HEALTH_RETRIES retries.            *)
(***************************************************************************)
C2_DegradedExhaustedFails ==
    (entry = "_argocd_app_wait_for_health" /\ Terminal)
        => /\ Done => CalledOk("argocd app wait --health")
           /\ EveryHealth("degraded") => Failed
           /\ NumCalls("argocd app wait --health")
                <= MAX_ATTEMPT_TO_WAIT_FOR_ARGOCD_HEALTH_RETRIES + 1

(***************************************************************************)
(* C3.  When an external command of a stage of deploy() fails, deploy()   *)
(* returns a result with success == False: the failure does not leave     *)
(* deploy() as an exception.                                               *)
(***************************************************************************)
C3_FailureIsReturned ==
    (entry \in DeployEntries /\ Terminal /\ LastCallFailed)
        => /\ pc = "returned"
           /\ HasKey(results, "success")
           /\ results["success"] = FALSE

(***************************************************************************)
(* C4.  A result of deploy() with success == False has a non-empty        *)
(* message that ends with the text of the error of the command that       *)
(* stopped the pipeline.                                                   *)
(***************************************************************************)
C4_FailureHasMessage ==
    (entry \in DeployEntries /\ pc = "returned"
     /\ HasKey(results, "success") /\ results["success"] = FALSE)
        => /\ HasKey(results, "message")
           /\ Len(results["message"]) > 0
           /\ LastCallFailed
           /\ \E k \in 1..Len(results["message"]) :
                SubSeq(results["message"], k, Len(results["message"]))
                    = ErrorReturnCodeText(calls[Len(calls)].cmd)

C4_Witness ==
    /\ entry = "gitops_deploy"
    /\ pc = "returned"
    /\ HasKey(results, "success")
    /\ results["success"] = FALSE
    /\ calls[Len(calls)] = Run("git commit", FALSE)

(***************************************************************************)
(* C5.  deploy() of argocd-deploy.py, whose request has prune disabled,   *)
(* run where every command succeeds except `argocd app sync`, which fails *)
(* with an output that is not the operation-in-progress one: the result   *)
(* returned has a message with the prune guidance.                        *)
(***************************************************************************)
C5_PruneGuidanceInResult ==
    (entry = "deploy" /\ Terminal /\ ~Truthy(deploy_argocd_sync_prune)
     /\ syncScript[1] = "other"
     /\ \A i \in 1..Len(calls) : calls[i].ok \/ calls[i].cmd = "argocd app sync")
        => /\ pc = "returned"
           /\ HasKey(results, "message")
           /\ Contains(results["message"], PruneWarning)

(***************************************************************************)
(* C6.  deploy() of argocd-deploy.py, run where every command succeeds,   *)
(* returns a result with success == True and the four artifacts.          *)
(***************************************************************************)
C6_SuccessResult ==
    (entry = "deploy" /\ Terminal /\ AllCallsOk
     /\ EverySync("ok") /\ EveryHealth("ok"))
        => /\ pc = "returned"
           /\ HasKey(results, "success")
           /\ results["success"] = TRUE
           /\ {"container-image-deployed-address", "config-repo-git-tag",
               "argocd-deployed-manifest", "deployed-host-urls"}
                \subseteq DOMAIN results

(***************************************************************************)
(* C7.  deploy() of argocd-deploy.py runs the commands of its stages in   *)
(* the order of the stages, and a run where every command succeeds gets   *)
(* to create the application and to request its synchronization.          *)
(***************************************************************************)
C7_StagesInOrder ==
    entry = "deploy"
        => /\ \A i, j \in 1..Len(calls) :
                i < j => StageRank(calls[i].cmd) <= StageRank(calls[j].cmd)
           /\ (Terminal /\ AllCallsOk /\ EverySync("ok") /\ EveryHealth("ok"))
                => /\ CalledOk("argocd app create")
                   /\ CalledOk("argocd app sync")

(***************************************************************************)
(* C8.  _get_deployed_host_urls raises for no manifest of parsed          *)
(* documents, each of them null or a mapping of whatever shape.            *)
(***************************************************************************)
C8_ExtractorNeverRaises ==
    (entry = "_get_deployed_host_urls"
     /\ \A i \in 1..Len(manifest) : manifest[i].t \in {"none", "dict"})
        => pc # "raised"

(***************************************************************************)
(* What the URL list of a manifest is to be, stated on the documents.      *)
(***************************************************************************)
RECURSIVE Flatten(_)
Flatten(ss) == IF ss = <<>> THEN <<>> ELSE Head(ss) \o Flatten(Tail(ss))

IsResource(doc, kind, api_version) ==
    /\ doc.t = "dict"
    /\ {"kind", "apiVersion"} \subseteq DOMAIN doc.m
    /\ doc.m["kind"] = Str(kind)
    /\ doc.m["apiVersion"] = Str(api_version)

IsRoute(doc) == IsResource(doc, "Route", "route.openshift.io/v1")
IsIngress(doc) == IsResource(doc, "Ingress", "networking.k8s.io/v1")

HasMappingSpec(doc) == "spec" \in DOMAIN doc.m /\ doc.m["spec"].t = "dict"

\* spec.tls is present and neither null nor empty
TlsPresentNonEmpty(spec) ==
    "tls" \in DOMAIN spec.m /\ spec.m["tls"] \notin {None, Dict(<<>>), List(<<>>)}

ExpectedRouteUrls(doc) ==
    LET spec == doc.m["spec"]
    IN  IF "host" \notin DOMAIN spec.m THEN <<>>
        ELSE <<<<IF TlsPresentNonEmpty(spec) THEN "https://" ELSE "http://",
                 spec.m["host"].s>>>>

\* some entry of spec.tls has a hosts list with exactly this host
HostListed(spec, host) ==
    /\ "tls" \in DOMAIN spec.m
    /\ \E j \in 1..Len(spec.m["tls"].l) :
        /\ "hosts" \in DOMAIN spec.m["tls"].l[j].m
        /\ \E k \in 1..Len(spec.m["tls"].l[j].m["hosts"].l) :
                spec.m["tls"].l[j].m["hosts"].l[k] = host

RuleHasHost(rule) == "host" \in DOMAIN rule.m

ExpectedIngressUrls(doc) ==
    LET spec == doc.m["spec"]
        hosted == SelectSeq(spec.m["rules"].l, RuleHasHost)
    IN  [i \in 1..Len(hosted) |->
            <<IF HostListed(spec, hosted[i].m["host"]) THEN "https://" ELSE "http://",
              hosted[i].m["host"].s>>]

(***************************************************************************)
(* C9.  For a manifest of Route documents whose spec is a mapping,        *)
(* _get_deployed_host_urls returns, in order, one URL for each Route that *)
(* has a host and none for the others: https://host when spec.tls is      *)
(* present and non-empty, http://host otherwise.                           *)
(***************************************************************************)
C9_RouteUrl ==
    (entry = "_get_deployed_host_urls" /\ Terminal
     /\ \A i \in 1..Len(manifest) : IsRoute(manifest[i]) /\ HasMappingSpec(manifest[i]))
        => /\ pc = "returned"
           /\ host_urls = Flatten([i \in 1..Len(manifest) |->
                                        ExpectedRouteUrls(manifest[i])])

RouteDoc(spec) ==
    Dict([kind |-> Str("Route"), apiVersion |-> Str("route.openshift.io/v1"),
          spec |-> spec])

C9_Witness ==
    /\ entry = "_get_deployed_host_urls"
    /\ pc = "returned"
    /\ manifest = <<RouteDoc(Dict([host |-> Str(HostA),
                                   tls |-> Dict([termination |-> Str("edge")])])),
                    RouteDoc(Dict([host |-> Str(HostA), tls |-> None]))>>
    /\ host_urls = <<<<"https://", HostA>>, <<"http://", HostA>>>>

(***************************************************************************)
(* C10.  When _get_deployed_host_urls returns for a manifest of Ingress   *)
(* documents, its list has, in document and rule order, one URL for each  *)
(* rule that has a host: https://host when an entry of spec.tls lists     *)
(* exactly that host under hosts, http://host otherwise.                   *)
(***************************************************************************)
C10_IngressUrls ==
    (entry = "_get_deployed_host_urls" /\ pc = "returned"
     /\ \A i \in 1..Len(manifest) : IsIngress(manifest[i]))
        => host_urls = Flatten([i \in 1..Len(manifest) |->
                                    ExpectedIngressUrls(manifest[i])])

C10_Witness ==
    /\ entry = "_get_deployed_host_urls"
    /\ pc = "returned"
    /\ manifest = <<Dict([kind |-> Str("Ingress"),
                          apiVersion |-> Str("networking.k8s.io/v1"),
                          spec |-> Dict([rules |-> List(<<Dict([host |-> Str(HostA)]),
                                                          Dict([host |-> Str(HostB)])>>),
                                         tls |-> List(<<TlsEntry(<<Str(HostA)>>)>>)])])>>
    /\ host_urls = <<<<"https://", HostA>>, <<"http://", HostB>>>>

(***************************************************************************)
(* C11.  A document that is null, a mapping without kind, or a mapping    *)
(* whose kind and apiVersion are not one of the two recognized pairs      *)
(* gives no URL and no error: for a manifest of such documents (the empty *)
(* manifest included) _get_deployed_host_urls returns the empty list, and *)
(* a list that is not empty comes with a Route or an Ingress document.    *)
(***************************************************************************)
Unrecognized(doc) ==
    \/ doc = None
    \/ doc.t = "dict" /\ "kind" \notin DOMAIN doc.m
    \/ /\ doc.t = "dict"
       /\ {"kind", "apiVersion"} \subseteq DOMAIN doc.m
       /\ ~IsRoute(doc)
       /\ ~IsIngress(doc)

C11_OnlyTwoPairsRecognized ==
    (entry = "_get_deployed_host_urls" /\ Terminal)
        => /\ (\A i \in 1..Len(manifest) : Unrecognized(manifest[i]))
                => (pc = "returned" /\ host_urls = <<>>)
           /\ (pc = "returned" /\ host_urls # <<>>)
                => \E i \in 1..Len(manifest) :
                        IsRoute(manifest[i]) \/ IsIngress(manifest[i])

C11_Witness ==
    /\ entry = "_get_deployed_host_urls"
    /\ pc = "returned"
    /\ manifest = <<Dict([kind |-> Str("Route"), apiVersion |-> Str("v1"),
                          spec |-> Dict([host |-> Str(HostA)])])>>
    /\ host_urls = <<>>

(***************************************************************************)
(* Classification of a failed attempt, as a run shows it: the failure was *)
(* taken as fatal when the run raised at that call, as retryable when it  *)
(* went on.                                                                *)
(***************************************************************************)
\* the number of calls of cmd among the first k calls
CallIndex(cmd, k) == Cardinality({j \in 1..k : calls[j].cmd = cmd})
FailedCall(cmd, k) == calls[k].cmd = cmd /\ ~calls[k].ok
RaisedAt(k) == k = Len(calls) /\ pc = "raised"
SyncTextOf(k) == SyncOutput(Scripted(syncScript, CallIndex("argocd app sync", k)))
HealthTextOf(k) ==
    HealthOutput(Scripted(healthScript, CallIndex("argocd app wait --health", k)))

\* letter case folded away, for the tokens that carry the phrases
LowerCase(tok) ==
    CASE tok \in {"FailedPrecondition", "FAILEDPRECONDITION"} -> "failedprecondition"
      [] tok = "Another operation is already in progress" ->
            "another operation is already in progress"
      [] tok = "LEVEL=FATAL" -> "level=fatal"
      [] tok = "Health state has transitioned from " ->
            "health state has transitioned from "
      [] tok \in {" to Degraded", " to degraded"} -> " to degraded"
      [] OTHER -> tok
SameCase(tok) == tok

\* FailedPrecondition, and later in the text the phrase
ContentionPhrase(text, Norm(_)) ==
    \E i, j \in 1..Len(text) :
        /\ i < j
        /\ Norm(text[i]) = Norm("FailedPrecondition")
        /\ Norm(text[j]) = Norm("another operation is already in progress")

DegradedPhrase(text, Norm(_)) ==
    \E i, j, k \in 1..Len(text) :
        /\ i < j /\ j + 1 < k
        /\ Norm(text[i]) = Norm("level=fatal")
        /\ Norm(text[j]) = Norm("health state has transitioned from ")
        /\ Norm(text[k]) = Norm(" to Degraded")

\* C13 as stated: a failed health wait is retryable exactly when its output
\* holds a fatal-level statement that the health state has transitioned from
\* a prior state to Degraded, whatever the letter case, the lines and the
\* text in between
C13_DegradedAnyCase ==
    \A k \in 1..Len(calls) :
        FailedCall("argocd app wait --health", k)
            => (~RaisedAt(k) <=> DegradedPhrase(HealthTextOf(k), LowerCase))

\* C13 amended: a failed health wait is retryable exactly when its output
\* holds 'level=fatal' and later 'health state has transitioned from', a
\* prior state and 'to Degraded' in exactly this letter case, on any lines
\* and with any text in between; every other output is fatal
C13_DegradedExactCase ==
    \A k \in 1..Len(calls) :
        FailedCall("argocd app wait --health", k)
            => (~RaisedAt(k) <=> DegradedPhrase(HealthTextOf(k), SameCase))

C13_Witness ==
    /\ entry = "_argocd_app_wait_for_health"
    /\ healthScript[1] = "degraded_lines"
    /\ healthScript[2] = "degraded_case"
    /\ Len(calls) = 2
    /\ FailedCall("argocd app wait --health", 1)
    /\ FailedCall("argocd app wait --health", 2)
    /\ RaisedAt(2)

(***************************************************************************)
(* C14.  _argocd_app_create_or_update always issues `argocd app create`   *)
(* with --upsert; called twice with the same request it issues the same   *)
(* command line twice, and a call whose command succeeds raises nothing.  *)
(***************************************************************************)
C14_CreateIsIdempotent ==
    entry = "_argocd_app_create_or_update"
        => /\ \A i \in 1..Len(calls) :
                /\ calls[i].cmd = "argocd app create"
                /\ calls[i].args[Len(calls[i].args)] = Arg(<<"--upsert">>)
                /\ calls[i].args = calls[1].args
           /\ pc = "raised" => LastCallFailed
           /\ (Terminal /\ AllCallsOk)
                => (pc = "returned" /\ Len(calls) = MaxInvocations)

C14_Witness ==
    /\ entry = "_argocd_app_create_or_update"
    /\ values_files = List(<<Str("values.yaml"), Str("values-DEV.yaml")>>)
    /\ pc = "returned"
    /\ Len(calls) = 2
    /\ AllCallsOk
    /\ calls[1].args = calls[2].args

(***************************************************************************)
(* C15.  _argocd_app_sync returns (Done) only if the most recent          *)
(* `argocd app sync` call succeeded and the most recent                   *)
(* `argocd app wait --health` call succeeded.                             *)
(***************************************************************************)
\* the last call of cmd was made and succeeded
LastOk(cmd) ==
    \E i \in 1..Len(calls) :
        /\ calls[i] = Run(cmd, TRUE)
        /\ \A j \in (i + 1)..Len(calls) : calls[j].cmd # cmd

C15_DoneOnlyAfterSyncAndHealth ==
    (entry = "_argocd_app_sync" /\ Done)
        => (LastOk("argocd app sync") /\ LastOk("argocd app wait --health"))

(***************************************************************************)
(* C16.  In a sync run `argocd app wait --health` is called only after an *)
(* `argocd app sync` call succeeded, and once it has been called no       *)
(* further `argocd app sync` or `argocd app wait --operation` is made.    *)
(***************************************************************************)
C16_HealthOnlyAfterSuccessfulSync ==
    entry \in {"deploy", "_argocd_app_sync"}
        => \A k \in 1..Len(calls) :
                calls[k].cmd = "argocd app wait --health"
                    => /\ \E i \in 1..(k - 1) : calls[i] = Run("argocd app sync", TRUE)
                       /\ \A j \in (k + 1)..Len(calls) :
                            calls[j].cmd \notin {"argocd app sync",
                                                 "argocd app wait --operation"}

(***************************************************************************)
(* C17.  A failed `argocd app wait --operation`, the first one or a       *)
(* re-wait after a contended sync, ends the run at once with an           *)
(* exception: it is the last call of the run.                             *)
(***************************************************************************)
C17_WaitOperationFailureIsFatal ==
    \A k \in 1..Len(calls) :
        FailedCall("argocd app wait --operation", k) => (RaisedAt(k) /\ Failed)

C17_Witness ==
    /\ entry = "_argocd_app_sync"
    /\ calls = <<Run("argocd app wait --operation", TRUE),
                 Run("argocd app sync", FALSE),
                 Run("argocd app wait --operation", FALSE)>>
    /\ Failed

\* text is a part of whole, in one piece
Within(whole, text) ==
    \E i \in 0..(Len(whole) - Len(text)) :
        \A j \in 1..Len(text) : whole[i + j] = text[j]

(***************************************************************************)
(* C18.  A failed `argocd app sync` whose output is not the               *)
(* operation-in-progress one ends the run at once, and the failure        *)
(* carries the error of the command, with the prune guidance exactly when *)
(* prune is false.                                                        *)
(***************************************************************************)
C18_FatalSyncErrorKeepsText ==
    \A k \in 1..Len(calls) :
        (FailedCall("argocd app sync", k)
         /\ ~ContentionPhrase(SyncTextOf(k), SameCase))
            => /\ RaisedAt(k)
               /\ Within(exc.text, ErrorReturnCodeText("argocd app sync"))
               /\ Contains(exc.text, PruneWarning) <=> ~Truthy(argocd_sync_prune)

(***************************************************************************)
(* C19.  A failed `argocd app wait --health` whose output is not the      *)
(* transitioned-to-Degraded one (a timeout, say) is fatal the first time: *)
(* it is the last call of the run, and the failure carries the error of   *)
(* the command.                                                           *)
(***************************************************************************)
C19_FatalHealthErrorKeepsText ==
    \A k \in 1..Len(calls) :
        (FailedCall("argocd app wait --health", k)
         /\ ~DegradedPhrase(HealthTextOf(k), SameCase))
            => /\ RaisedAt(k)
               /\ Within(exc.text, ErrorReturnCodeText("argocd app wait --health"))

(***************************************************************************)
(* C20.  Every `argocd app sync` call comes right after a successful      *)
(* `argocd app wait --operation` call: a retry waits again before it      *)
(* requests the sync, and two sync calls never follow one another.        *)
(***************************************************************************)
C20_SyncAfterWaitOperation ==
    \A k \in 1..Len(calls) :
        calls[k].cmd = "argocd app sync"
            => /\ k > 1
               /\ calls[k - 1] = Run("argocd app wait --operation", TRUE)

C20_Witness ==
    /\ entry = "_argocd_app_sync"
    /\ Len(calls) >= 4
    /\ calls[1] = Run("argocd app wait --operation", TRUE)
    /\ calls[2] = Run("argocd app sync", FALSE)
    /\ calls[3] = Run("argocd app wait --operation", TRUE)
    /\ calls[4] = Run("argocd app sync", TRUE)

(***************************************************************************)
(* C21.  When every command returns, a run of _argocd_app_sync ends,      *)
(* returned or raised, and it makes no more calls than the two retry      *)
(* maxima allow: a wait and a sync per sync attempt, a wait per health    *)
(* attempt.                                                               *)
(***************************************************************************)
C21_SyncRunTerminates ==
    /\ [](entry = "_argocd_app_sync"
            => Len(calls) <= 2 * max_attempt_op + max_attempt_health)
    /\ (entry = "_argocd_app_sync" => <>Terminal)

C21_Witness ==
    /\ entry = "_argocd_app_sync"
    /\ Terminal
    /\ Len(calls) = 2 * max_attempt_op + max_attempt_health

(***************************************************************************)
(* Short-circuit: what follows a failed command in a run of deploy.       *)
(***************************************************************************)
NoLaterStageAfter(i) ==
    \A j \in (i + 1)..Len(calls) :
        StageRank(calls[j].cmd) <= StageRank(calls[i].cmd)

\* the checkout of the branch failed and the branch was created instead
RecoveredCheckout(i) ==
    /\ calls[i] = Run("git checkout", FALSE)
    /\ i < Len(calls)
    /\ calls[i + 1] = Run("git checkout -b", TRUE)

\* C22 as stated: in a run of deploy, of either script, no command of a
\* later stage follows a command that failed
C22_FailureShortCircuits ==
    entry \in DeployEntries
        => \A i \in 1..Len(calls) : ~calls[i].ok => NoLaterStageAfter(i)

\* C22 amended: in a run of deploy, of either script, no command of a later
\* stage follows a command that failed, unless the failed command is the
\* `git checkout` of the branch and `git checkout -b` then created it
C22_FailureShortCircuitsButCheckout ==
    entry \in DeployEntries
        => \A i \in 1..Len(calls) :
                (~calls[i].ok /\ ~RecoveredCheckout(i)) => NoLaterStageAfter(i)

C22_Witness ==
    /\ entry = "gitops_deploy"
    /\ Len(calls) > 6
    /\ RecoveredCheckout(2)
    /\ calls[Len(calls)] = Run("git push", FALSE)
    /\ pc = "raised"

(***************************************************************************)
(* C23.  A failed attempt is classified by the output of that attempt     *)
(* alone: an attempt whose output lacks the retryable statement is fatal  *)
(* even when an attempt before it failed with that statement, and the     *)
(* buffer holds the output of the last attempt only.                      *)
(***************************************************************************)
C23_ClassificationIsAttemptLocal ==
    /\ \A k \in 1..Len(calls) :
        /\ (/\ FailedCall("argocd app sync", k)
            /\ ~ContentionPhrase(SyncTextOf(k), SameCase)
            /\ \E i \in 1..(k - 1) :
                    /\ FailedCall("argocd app sync", i)
                    /\ ContentionPhrase(SyncTextOf(i), SameCase))
                => RaisedAt(k)
        /\ (/\ FailedCall("argocd app wait --health", k)
            /\ ~DegradedPhrase(HealthTextOf(k), SameCase)
            /\ \E i \in 1..(k - 1) :
                    /\ FailedCall("argocd app wait --health", i)
                    /\ DegradedPhrase(HealthTextOf(i), SameCase))
                => RaisedAt(k)
    /\ \A k \in 1..Len(calls) :
        (/\ calls[k].cmd \in {"argocd app sync", "argocd app wait --health"}
         /\ \A j \in (k + 1)..Len(calls) :
                calls[j].cmd \notin {"argocd app sync", "argocd app wait --health"})
            => argocd_output_buff = IF calls[k].cmd = "argocd app sync"
                                    THEN SyncTextOf(k) ELSE HealthTextOf(k)

C23_Witness ==
    /\ entry = "_argocd_app_sync"
    /\ syncScript[1] = "contention"
    /\ syncScript[2] = "other"
    /\ Len(calls) = 4
    /\ FailedCall("argocd app sync", 4)
    /\ RaisedAt(4)
    /\ argocd_output_buff = SyncOutput("other")

(***************************************************************************)
(* C24.  Whatever the two maxima are, a run makes at most                 *)
(* MAX_ATTEMPT_TO_WAIT_FOR_ARGOCD_HEALTH_RETRIES calls of                 *)
(* `argocd app wait --health` and at most                                 *)
(* MAX_ATTEMPT_TO_WAIT_FOR_ARGOCD_OP_RETRIES calls of `argocd app sync`:  *)
(* each loop is bounded by its own maximum.                               *)
(***************************************************************************)
C24_EachLoopHasItsOwnMaximum ==
    /\ NumCalls("argocd app wait --health") <= max_attempt_health
    /\ NumCalls("argocd app sync") <= max_attempt_op

(***************************************************************************)
(* C25.  When _get_deployed_host_urls returns, its list is the            *)
(* concatenation, in document order, of the URL list of each document (in *)
(* rule order for an Ingress), and it has as many URLs as there are Route *)
(* documents with a host and Ingress rules with a host.                   *)
(***************************************************************************)
ExpectedUrls(doc) ==
    IF IsRoute(doc)
    THEN IF HasMappingSpec(doc) THEN ExpectedRouteUrls(doc) ELSE <<>>
    ELSE IF IsIngress(doc)
    THEN IF /\ HasMappingSpec(doc)
            /\ "rules" \in DOMAIN doc.m["spec"].m
            /\ doc.m["spec"].m["rules"].t = "list"
         THEN ExpectedIngressUrls(doc)
         ELSE <<>>
    ELSE <<>>

HostCount(doc) ==
    IF IsRoute(doc)
    THEN IF HasMappingSpec(doc) /\ "host" \in DOMAIN doc.m["spec"].m THEN 1 ELSE 0
    ELSE IF IsIngress(doc)
    THEN IF /\ HasMappingSpec(doc)
            /\ "rules" \in DOMAIN doc.m["spec"].m
            /\ doc.m["spec"].m["rules"].t = "list"
         THEN Len(SelectSeq(doc.m["spec"].m["rules"].l, RuleHasHost))
         ELSE 0
    ELSE 0

RECURSIVE SumSeq(_)
SumSeq(ns) == IF ns = <<>> THEN 0 ELSE Head(ns) + SumSeq(Tail(ns))

C25_UrlsInDocumentAndRuleOrder ==
    (entry = "_get_deployed_host_urls" /\ pc = "returned")
        => /\ host_urls = Flatten([i \in 1..Len(manifest) |->
                                        ExpectedUrls(manifest[i])])
           /\ Len(host_urls) = SumSeq([i \in 1..Len(manifest) |->
                                            HostCount(manifest[i])])

C25_Witness ==
    /\ entry = "_get_deployed_host_urls"
    /\ pc = "returned"
    /\ Len(manifest) = 3
    /\ IsIngress(manifest[1])
    /\ manifest[2] = None
    /\ IsRoute(manifest[3])
    /\ host_urls = <<<<"https://", HostA>>, <<"http://", HostB>>,
                     <<"https://", HostA>>>>

(***************************************************************************)
(* C26.  For a manifest with a document that is not parseable YAML, every *)
(* other document being one the function handles, _get_deployed_host_urls *)
(* does not raise and returns the URLs of the other documents, in order.  *)
(***************************************************************************)
C26_UnparseableDocumentIsSkipped ==
    (/\ entry = "_get_deployed_host_urls"
     /\ Terminal
     /\ \E i \in 1..Len(manifest) : manifest[i] = Unparseable
     /\ \A i \in 1..Len(manifest) :
            manifest[i] = Unparseable \/ HostUrls(<<manifest[i]>>).err = "none")
        => /\ pc = "returned"
           /\ host_urls = Flatten([i \in 1..Len(manifest) |->
                                        ExpectedUrls(manifest[i])])

(***************************************************************************)
(* C27.  `argocd app create` gets --sync-policy=automated when the        *)
(* auto-sync flag is true (the boolean, or the word in any letter case)   *)
(* and --sync-policy=none for every other value, and one --values=<file>  *)
(* option per values file, in the order of the list, and none when the    *)
(* list is empty or missing.                                              *)
(***************************************************************************)
FlagIsTrue(flag) ==
    \/ flag = PyBool(TRUE)
    \/ flag.t = "str" /\ flag.s \in {"true", "True", "TRUE"}

\* the --values options among the arguments of a call
ValuesOptions(args) ==
    LET lists == SelectSeq(args, LAMBDA a : a.t = "list")
    IN  Flatten([i \in 1..Len(lists) |-> lists[i].l])

C27_SyncPolicyAndValuesOptions ==
    \A k \in 1..Len(calls) :
        calls[k].cmd = "argocd app create"
            => /\ \E i \in 1..Len(calls[k].args) :
                    calls[k].args[i] =
                        Arg(<<"--sync-policy=",
                              IF FlagIsTrue(auto_sync) THEN "automated" ELSE "none">>)
               /\ ValuesOptions(calls[k].args) =
                    IF values_files.t = "list"
                    THEN [i \in 1..Len(values_files.l) |->
                            Arg(<<"--values=", values_files.l[i].s>>)]
                    ELSE <<>>

C27_Witness ==
    /\ entry = "_argocd_app_create_or_update"
    /\ auto_sync = Str("True")
    /\ Len(calls) > 0
    /\ calls[1].args[7] = Arg(<<"--sync-policy=", "automated">>)
    /\ ValuesOptions(calls[1].args) = <<Arg(<<"--values=", "values.yaml">>),
                                        Arg(<<"--values=", "values-DEV.yaml">>)>>

(***************************************************************************)
(* C29.  deploy() of update-gitops-repo.py, when `git commit` fails:      *)
(* nothing is raised, the result returned has success == False, a message *)
(* that starts with 'Error deploying to environment (DEV):' and goes on   *)
(* with the error of the commit, and container-image-deployed-address;    *)
(* `git push` is not run.                                                 *)
(***************************************************************************)
C29_CommitFailureIsReturned ==
    (entry = "gitops_deploy" /\ Called("git commit") /\ ~CalledOk("git commit"))
        => /\ pc = "returned"
           /\ exc = NoExc
           /\ {"success", "message", "container-image-deployed-address"}
                \subseteq DOMAIN results
           /\ results["success"] = FALSE
           /\ SubSeq(results["message"], 1, 3)
                = <<"Error deploying to environment (", "DEV", "): ">>
           /\ Within(SubSeq(results["message"], 4, Len(results["message"])),
                     ErrorReturnCodeText("git commit"))
           /\ ~Called("git push")

C29_Witness ==
    /\ entry = "gitops_deploy"
    /\ calls = <<Run("git clone", TRUE), Run("git checkout", TRUE),
                 Run("git config user.email", TRUE),
                 Run("git config user.name", TRUE),
                 Run("yq", TRUE), Run("git add", TRUE), Run("git commit", FALSE)>>
    /\ pc = "returned"
    /\ results["success"] = FALSE

(***************************************************************************)
(* C30.  clone_repo runs git clone, git checkout, git checkout -b only    *)
(* when that checkout failed, git config user.email, git config           *)
(* user.name, in this order and each only after the one before it         *)
(* succeeded (for the config commands: one of the two checkouts), and it  *)
(* returns only after both config commands succeeded.                     *)
(***************************************************************************)
C30_CloneRepoOrder ==
    (entry \in DeployEntries /\ Len(calls) > 0)
        => /\ calls[1].cmd = "git clone"
           /\ \A k \in 2..Len(calls) :
                /\ calls[k].cmd # "git clone"
                /\ calls[k].cmd = "git checkout"
                    => calls[k - 1] = Run("git clone", TRUE)
                /\ calls[k].cmd = "git checkout -b"
                    => calls[k - 1] = Run("git checkout", FALSE)
                /\ calls[k].cmd = "git config user.email"
                    => calls[k - 1] \in {Run("git checkout", TRUE),
                                         Run("git checkout -b", TRUE)}
                /\ calls[k].cmd = "git config user.name"
                    => calls[k - 1] = Run("git config user.email", TRUE)
                /\ StageRank(calls[k].cmd) > 1
                    => /\ k > 4
                       /\ \/ StageRank(calls[k - 1].cmd) > 1
                          \/ calls[k - 1] = Run("git config user.name", TRUE)
           /\ pc \notin {"clone", "raised"}
                => (CalledOk("git config user.email") /\ CalledOk("git config user.name"))

C30_Witness ==
    /\ entry = "deploy"
    /\ calls = <<Run("git clone", TRUE), Run("git checkout", FALSE),
                 Run("git checkout -b", TRUE),
                 Run("git config user.email", TRUE),
                 Run("git config user.name", TRUE)>>
    /\ pc = "update_yaml"

\* ---- C31 ----
HttpUrl(url) == Len(url) > 0 /\ url[1] \in {"http://", "https://"}
NonEmpty(v) == v.t = "str" /\ v.s # ""
Formatted(v) == IF v.t = "str" THEN v.s ELSE "None"
Credentialed(url, user, pass) ==
    Url(<<url[1], Formatted(user), ":", Formatted(pass), "@">> \o Tail(url))
\* the URL left when the credentials are taken out of a credential-bearing one
WithoutCredentials(u) == <<u.pieces[1]>> \o SubSeq(u.pieces, 6, Len(u.pieces))
ClonedFrom(u) == Called("git clone") /\ repo_url_with_auth = u
PushedBy(script) == Called("git push") /\ ScriptOf(entry) = script

\* C31: clone_repo clones from <protocol><username>:<password>@<address> iff
\* username and password are both non-empty and the URL starts with http://
\* or https://, and otherwise from the URL unchanged; update-gitops-repo.py's
\* _git_push_deployment_config_repo pushes to the credential-bearing URL iff
\* the URL starts with http:// or https://, and otherwise with no explicit
\* URL; taking the credentials out of a rewritten URL gives the original URL
C31_CredentialsOnlyInHttpUrls ==
    /\ Called("git clone") =>
          IF HttpUrl(repo_url) /\ NonEmpty(username) /\ NonEmpty(password)
          THEN /\ repo_url_with_auth = Credentialed(repo_url, username, password)
               /\ WithoutCredentials(repo_url_with_auth) = repo_url
          ELSE repo_url_with_auth = Url(repo_url)
    /\ PushedBy("gitops_deploy") =>
          IF HttpUrl(repo_url)
          THEN /\ push_url = Credentialed(repo_url, username, password)
               /\ WithoutCredentials(push_url) = repo_url
          ELSE push_url = None

\* an https clone with both credentials, followed by a push to the same
\* credential-bearing URL
C31_Witness ==
    /\ entry = "gitops_deploy"
    /\ ClonedFrom(Url(<<"https://", "dwinchell-robot", ":", "secret", "@",
                        gitops_deployment_config_repo[2]>>))
    /\ CalledOk("git push")
    /\ push_url = repo_url_with_auth

\* reachability of the other cases of C31
C31_CloneUnchangedHttp ==
    /\ entry = "clone_repo" /\ repo_url[1] = "https://" /\ password = Str("")
    /\ username = Str("user") /\ ClonedFrom(Url(repo_url))
C31_PushNoUrl ==
    /\ entry = GitopsPushEntry /\ repo_url = <<"git@host:repo.git">>
    /\ Called("git push") /\ push_url = None
C31_PushNoneCredentials ==
    /\ entry = GitopsPushEntry /\ username = None /\ Called("git push")
    /\ push_url = Url(<<"http://", "None", ":", "secret", "@", "host/repo.git">>)

====
